---- MODULE Spec2Model ----
(***************************************************************************)
(* Flight Delay ML API ("Bloque 1 - APIs Modelos/app.py").                 *)
(*                                                                         *)
(* The FastAPI application keeps two module-level globals,                 *)
(* prediction_count and start_time, and a classifier loaded once at        *)
(* import.  The async endpoints (predict, predict-batch, simulate-error)   *)
(* run as coroutines on the single event-loop thread; they contain no      *)
(* await, so a coroutine that has started runs to its return or raise      *)
(* before another coroutine starts.  The sync endpoints (info, metrics)    *)
(* run on threadpool threads and may run between any two steps of a        *)
(* coroutine.  `prediction_count += 1` is a load followed by a store.      *)
(***************************************************************************)
EXTENDS Integers, Sequences, FiniteSets

\* ------------------------------------------------------------- bounds
MaxTasks == 2
MaxBatch == 2
MaxCount == 2
MaxClock == 2

\* ------------------------------------------------- program constants
DistanceMin == 100
DistanceMax == 5000
StatusOk == 200
StatusTeapot == 418
StatusUnprocessable == 422
StatusInternal == 500

\* decision threshold 0.5, as the fraction <<numerator, denominator>>
Threshold == <<1, 2>>

\* ------------------------------------------------------------- inputs
\* Request bodies that are well-typed JSON: both edges of the distance range and
\* their outer neighbours, an empty and a non-empty flight_id, both weather values
\* (bad weather on the long flights).
FlightIds == {"", "A"}
Distances == {DistanceMin - 1, DistanceMin, DistanceMax, DistanceMax + 1}
RawFlights ==
    {r \in [flight_id : FlightIds, distance : Distances, bad_weather : BOOLEAN] :
        r.bad_weather = (r.distance >= DistanceMax)}

RECURSIVE SeqsUpTo(_, _)
SeqsUpTo(S, n) ==
    IF n = 0 THEN {<<>>}
    ELSE LET shorter == SeqsUpTo(S, n - 1)
         IN  shorter \cup {Append(s, x) : s \in {q \in shorter : Len(q) = n - 1}, x \in S}

RawBatches == SeqsUpTo(RawFlights, MaxBatch)

\* --------------------------------------------------------- validation
\* class FlightData: flight_id is any str, distance has ge/le, bad_weather is bool.
FlightData(raw) == raw.distance >= DistanceMin /\ raw.distance =< DistanceMax

\* data_list: List[FlightData]: the body is accepted only if every item is.
\* variant: an empty list is refused
ListFlightDataNonEmpty(raws) == Len(raws) > 0 /\ \A k \in 1..Len(raws) : FlightData(raws[k])
ListFlightData(raws) == \A k \in 1..Len(raws) : FlightData(raws[k])

\* ---------------------------------------------------------- classifier
\* A row of predict_proba: <<P(class 0), P(class 1)>>, each a fraction.
ProbaRows == { << <<1, 2>>, <<1, 2>> >>, << <<2, 5>>, <<3, 5>> >> }
ClassifierError == "classifier error"
Outcomes == [raised : {FALSE}, row : ProbaRows] \cup
            [raised : {TRUE}, exc : {ClassifierError}]

IntOfBool(b) == IF b THEN 1 ELSE 0

\* features = [[distance, int(bad_weather)]]
Features(data) == << <<data.distance, IntOfBool(data.bad_weather)>> >>

\* p > q for fractions with positive denominators
FracGt(p, q) == p[1] * q[2] > q[1] * p[2]

\* the rows the request bodies above can present to the classifier
FeatureRows == {Features(r)[1] : r \in {x \in RawFlights : FlightData(x)}}
Classifiers == [FeatureRows -> Outcomes]

\* variant: probability >= 0.5
DelayedNonStrict(probability) == ~FracGt(Threshold, probability)
Delayed(probability) == FracGt(probability, Threshold)

VARIABLES
    model,             \* the classifier loaded at import
    prediction_count,  \* global counter
    start_time,        \* global, set at import
    task,              \* the request contexts of the async endpoints
    last,              \* the response most recently sent
    scored,            \* history: classifier calls that returned a probability
    delivered          \* history: prediction results sent in 200 responses

vars == <<model, prediction_count, start_time, task, last, scored, delivered>>

Tasks == 1..MaxTasks

IdleTask == [pc |-> "idle", kind |-> "none", data |-> <<>>, i |-> 0,
             results |-> <<>>, tmp |-> 0, before |-> 0]
NoResponse == [endpoint |-> "none"]

\* model.predict_proba(features): one output row per input row, or an exception
PredictProba(m, features) ==
    LET out == m[features[1]]
    IN  IF out.raised THEN out ELSE [raised |-> FALSE, value |-> <<out.row>>]

\* float(model.predict_proba(features)[0][1]) and the threshold; the dict returned
Probability(proba) == proba[1][2]

Prediction(data, probability) ==
    [flight_id |-> data.flight_id,
     delay_probability |-> probability,
     delayed |-> Delayed(probability)]

Init ==
    /\ model \in Classifiers
    /\ prediction_count = 0
    /\ start_time \in 0..1
    /\ task = [t \in Tasks |-> IdleTask]
    /\ last = NoResponse
    /\ scored = 0
    /\ delivered = 0

\* variant: handlers may be suspended anywhere, as threads are
EventLoopPreemptive == TRUE
\* No await in the async handlers: the event loop starts a coroutine only when
\* none is in progress.
EventLoopFree == \A t \in Tasks : task[t].pc = "idle"

\* ------------------------------------------------------------ responses
ValidationResponse == [status |-> StatusUnprocessable, detail |-> "validation error"]
ErrorResponse(prefix, exc) == [status |-> StatusInternal, detail |-> prefix \o exc]
OkResponse(body) == [status |-> StatusOk, body |-> body]

\* One request and its response, with two history fields: prediction_count when the
\* request was taken up, and the classifier calls made for it.
Exchange(endpoint, request, response, before, calls) ==
    [endpoint |-> endpoint, request |-> request, response |-> response,
     before |-> before, calls |-> calls]

NewTask(kind, data) ==
    [pc |-> "score", kind |-> kind, data |-> data, i |-> 1,
     results |-> <<>>, tmp |-> 0, before |-> prediction_count]

Running(t, kind, pc) == task[t].kind = kind /\ task[t].pc = pc

\* ------------------------------------------------- POST /predict (async)
\* FastAPI validates the body against FlightData before predict_delay is called.
PostPredict(t) ==
    /\ EventLoopFree
    /\ task[t].pc = "idle"
    /\ scored < MaxCount
    /\ \E raw \in RawFlights :
          IF FlightData(raw)
          THEN /\ task' = [task EXCEPT ![t] = NewTask("predict", <<raw>>)]
               /\ last' = NoResponse
          ELSE /\ last' = Exchange("predict", raw, ValidationResponse, prediction_count, 0)
               /\ UNCHANGED task
    /\ UNCHANGED <<model, prediction_count, start_time, scored, delivered>>

\* variant: the increment placed before the classifier call
predict_delay_score_CountFirst(t) ==
    /\ Running(t, "predict", "score")
    /\ prediction_count' = prediction_count + 1
    /\ LET data == task[t].data[1]
           out == PredictProba(model, Features(data))
       IN  IF out.raised
           THEN /\ last' = Exchange("predict", data,
                                    ErrorResponse("Prediction failed: ", out.exc),
                                    task[t].before, 1)
                /\ task' = [task EXCEPT ![t] = IdleTask]
                /\ UNCHANGED <<scored, delivered>>
           ELSE /\ last' = Exchange("predict", data,
                                    OkResponse(Prediction(data, Probability(out.value))),
                                    task[t].before, 1)
                /\ task' = [task EXCEPT ![t] = IdleTask]
                /\ scored' = scored + 1
                /\ delivered' = delivered + 1
    /\ UNCHANGED <<model, start_time>>

\* predict_delay, try block up to `delayed = probability > 0.5`; the except clause
predict_delay_score(t) ==
    /\ Running(t, "predict", "score")
    /\ LET data == task[t].data[1]
           out == PredictProba(model, Features(data))
       IN  IF out.raised
           THEN /\ last' = Exchange("predict", data,
                                    ErrorResponse("Prediction failed: ", out.exc),
                                    task[t].before, 1)
                /\ task' = [task EXCEPT ![t] = IdleTask]
                /\ UNCHANGED scored
           ELSE /\ task' = [task EXCEPT ![t].pc = "load",
                                        ![t].results = <<Prediction(data, Probability(out.value))>>]
                /\ scored' = scored + 1
                /\ UNCHANGED last
    /\ UNCHANGED <<model, prediction_count, start_time, delivered>>

\* prediction_count += 1: the load
LoadCount(t, kind) ==
    /\ Running(t, kind, "load")
    /\ task' = [task EXCEPT ![t].pc = "store", ![t].tmp = prediction_count]
    /\ UNCHANGED <<model, prediction_count, start_time, last, scored, delivered>>

predict_delay_load(t) == LoadCount(t, "predict")

\* prediction_count += 1: the store; then the return of the result dict
predict_delay_store(t) ==
    /\ Running(t, "predict", "store")
    /\ prediction_count' = task[t].tmp + 1
    /\ last' = Exchange("predict", task[t].data[1], OkResponse(task[t].results[1]),
                        task[t].before, 1)
    /\ delivered' = delivered + 1
    /\ task' = [task EXCEPT ![t] = IdleTask]
    /\ UNCHANGED <<model, start_time, scored>>

\* -------------------------------------------- POST /predict-batch (async)
\* FastAPI validates the body against List[FlightData] before predict_batch is called.
PostPredictBatch(t) ==
    /\ EventLoopFree
    /\ task[t].pc = "idle"
    /\ \E raws \in RawBatches :
          /\ scored + Len(raws) =< MaxCount
          /\ IF ListFlightData(raws)
             THEN /\ task' = [task EXCEPT ![t] = NewTask("batch", raws)]
                  /\ last' = NoResponse
             ELSE /\ last' = Exchange("predict-batch", raws, ValidationResponse,
                                      prediction_count, 0)
                  /\ UNCHANGED task
    /\ UNCHANGED <<model, prediction_count, start_time, scored, delivered>>

\* variant: results.insert(0, ...) in place of results.append(...)
predict_batch_score_Prepend(t) ==
    /\ Running(t, "batch", "score")
    /\ task[t].i =< Len(task[t].data)
    /\ LET data == task[t].data[task[t].i]
           out == PredictProba(model, Features(data))
       IN  IF out.raised
           THEN /\ last' = Exchange("predict-batch", task[t].data,
                                    ErrorResponse("Batch prediction failed: ", out.exc),
                                    task[t].before, task[t].i)
                /\ task' = [task EXCEPT ![t] = IdleTask]
                /\ UNCHANGED scored
           ELSE /\ task' = [task EXCEPT ![t].pc = "load",
                                        ![t].results = <<Prediction(data, Probability(out.value))>> \o @]
                /\ scored' = scored + 1
                /\ UNCHANGED last
    /\ UNCHANGED <<model, prediction_count, start_time, delivered>>

\* variant: a failing item is skipped and the loop goes on
predict_batch_score_SkipFailed(t) ==
    /\ Running(t, "batch", "score")
    /\ task[t].i =< Len(task[t].data)
    /\ LET data == task[t].data[task[t].i]
           out == PredictProba(model, Features(data))
       IN  IF out.raised
           THEN /\ task' = [task EXCEPT ![t].i = @ + 1]
                /\ UNCHANGED scored
           ELSE /\ task' = [task EXCEPT ![t].pc = "load",
                                        ![t].results = Append(@, Prediction(data, Probability(out.value)))]
                /\ scored' = scored + 1
    /\ UNCHANGED <<model, prediction_count, start_time, last, delivered>>

\* predict_batch, one pass of the loop body up to results.append; the except clause
predict_batch_score(t) ==
    /\ Running(t, "batch", "score")
    /\ task[t].i =< Len(task[t].data)
    /\ LET data == task[t].data[task[t].i]
           out == PredictProba(model, Features(data))
       IN  IF out.raised
           THEN /\ last' = Exchange("predict-batch", task[t].data,
                                    ErrorResponse("Batch prediction failed: ", out.exc),
                                    task[t].before, task[t].i)
                /\ task' = [task EXCEPT ![t] = IdleTask]
                /\ UNCHANGED scored
           ELSE /\ task' = [task EXCEPT ![t].pc = "load",
                                        ![t].results = Append(@, Prediction(data, Probability(out.value)))]
                /\ scored' = scored + 1
                /\ UNCHANGED last
    /\ UNCHANGED <<model, prediction_count, start_time, delivered>>

predict_batch_load(t) == LoadCount(t, "batch")

\* prediction_count += 1: the store; then the next pass of the loop
predict_batch_store(t) ==
    /\ Running(t, "batch", "store")
    /\ prediction_count' = task[t].tmp + 1
    /\ task' = [task EXCEPT ![t].pc = "score", ![t].i = @ + 1]
    /\ UNCHANGED <<model, start_time, last, scored, delivered>>

\* return {"predictions": results, "count": len(results)}
predict_batch_return(t) ==
    /\ Running(t, "batch", "score")
    /\ task[t].i > Len(task[t].data)
    /\ last' = Exchange("predict-batch", task[t].data,
                        OkResponse([predictions |-> task[t].results,
                                    count |-> Len(task[t].results)]),
                        task[t].before, Len(task[t].data))
    /\ delivered' = delivered + Len(task[t].results)
    /\ task' = [task EXCEPT ![t] = IdleTask]
    /\ UNCHANGED <<model, prediction_count, start_time, scored>>

\* ------------------------------------------------------ GET /info (sync)
InfoBody ==
    [service |-> "Flight Delay ML API",
     description |-> "API de ejemplo para enseñar FastAPI y ML",
     version |-> "1.0",
     features |-> <<"predict", "predict-batch", "metrics", "simulate-error">>]

info ==
    /\ last' = Exchange("info", "GET", OkResponse(InfoBody), prediction_count, 0)
    /\ UNCHANGED <<model, prediction_count, start_time, task, scored, delivered>>

\* --------------------------------------------------- GET /metrics (sync)
\* The clock counts half seconds; int() truncates the difference toward zero, also
\* when the difference is negative (\div alone would round it down).
Uptime(now, start) ==
    IF now >= start THEN (now - start) \div 2 ELSE 0 - ((start - now) \div 2)

\* variant: metrics counts itself as a prediction
metricsCounting ==
    /\ prediction_count' = prediction_count + 1
    /\ last' = Exchange("metrics", "GET", OkResponse([total_predictions |-> prediction_count,
                                                      uptime_seconds |-> 0]), prediction_count, 0)
    /\ UNCHANGED <<model, start_time, task, scored, delivered>>

\* time.time() is the wall clock: a reading may lie before start_time when the
\* clock was set back.
metrics ==
    /\ \E now \in (start_time - MaxClock)..(start_time + MaxClock) :
          last' = Exchange("metrics", "GET",
                           OkResponse([total_predictions |-> prediction_count,
                                       uptime_seconds |-> Uptime(now, start_time)]),
                           prediction_count, 0)
    /\ UNCHANGED <<model, prediction_count, start_time, task, scored, delivered>>

\* ------------------------------------------- POST /simulate-error (async)
SimulatedDetail == "Este es un error simulado para enseñar manejo"

\* variant: the simulated error raised as a 500
simulate_error_Internal ==
    /\ EventLoopFree
    /\ \E raise_error \in BOOLEAN :
          last' = Exchange("simulate-error", [raise_error |-> raise_error],
                           IF raise_error
                           THEN [status |-> StatusInternal, detail |-> SimulatedDetail]
                           ELSE [status |-> StatusOk,
                                 body |-> [status |-> "ok", message |-> "No se produjo error"]],
                           prediction_count, 0)
    /\ UNCHANGED <<model, prediction_count, start_time, task, scored, delivered>>

simulate_error ==
    /\ EventLoopFree
    /\ \E raise_error \in BOOLEAN :
          last' = Exchange("simulate-error", [raise_error |-> raise_error],
                           IF raise_error
                           THEN [status |-> StatusTeapot, detail |-> SimulatedDetail]
                           ELSE [status |-> StatusOk,
                                 body |-> [status |-> "ok", message |-> "No se produjo error"]],
                           prediction_count, 0)
    /\ UNCHANGED <<model, prediction_count, start_time, task, scored, delivered>>

Next ==
    \/ \E t \in Tasks : PostPredict(t)
    \/ \E t \in Tasks : predict_delay_score(t)
    \/ \E t \in Tasks : predict_delay_load(t)
    \/ \E t \in Tasks : predict_delay_store(t)
    \/ \E t \in Tasks : PostPredictBatch(t)
    \/ \E t \in Tasks : predict_batch_score(t)
    \/ \E t \in Tasks : predict_batch_load(t)
    \/ \E t \in Tasks : predict_batch_store(t)
    \/ \E t \in Tasks : predict_batch_return(t)
    \/ info
    \/ metrics
    \/ simulate_error

Spec == Init /\ [][Next]_vars

\* ---------------------------------------------------------------- claims
Quiescent == \A t \in Tasks : task[t].pc = "idle"

LastIs(endpoint) == last.endpoint = endpoint
Status == last.response.status

InRange(raw) == raw.distance >= DistanceMin /\ raw.distance =< DistanceMax
ValidItems(raws) == SelectSeq(raws, InRange)
FlightIdsOf(items) == [k \in 1..Len(items) |-> items[k].flight_id]

\* C1: whatever the order in which the event loop takes up concurrently submitted
\* predict and predict-batch requests, once none is in progress prediction_count
\* equals its initial value 0 plus the number of records scored successfully:
\* no increment is lost.
C1_NoLostIncrement == Quiescent => prediction_count = scored

\* Two records were scored by two different requests, the second a single prediction.
C1_Witness ==
    /\ Quiescent
    /\ LastIs("predict")
    /\ Status = StatusOk
    /\ last.before = 1
    /\ scored = 2

\* C2: a batch that mixes schema-valid and schema-invalid records succeeds, its
\* count is the number of valid records, and predictions holds the valid records
\* only, in input order.
C2_MixedBatchDropsInvalid ==
    (/\ LastIs("predict-batch")
     /\ ValidItems(last.request) # <<>>
     /\ ValidItems(last.request) # last.request
     /\ \A k \in 1..Len(ValidItems(last.request)) :
           ~PredictProba(model, Features(ValidItems(last.request)[k])).raised)
    => /\ Status = StatusOk
       /\ last.response.body.count = Len(ValidItems(last.request))
       /\ FlightIdsOf(last.response.body.predictions) = FlightIdsOf(ValidItems(last.request))

\* C3: a single prediction whose distance is outside [100, 5000] or whose
\* flight_id is empty is rejected with 422, without a classifier call and without
\* a change of prediction_count.
C3_RejectsOutOfRangeOrEmptyId ==
    (LastIs("predict") /\ (~InRange(last.request) \/ last.request.flight_id = ""))
    => /\ Status = StatusUnprocessable
       /\ last.calls = 0
       /\ prediction_count = last.before

\* the classifier's answer for one validated record
Scored(raw) == PredictProba(model, Features(raw))

\* C4: a single prediction whose classifier call fails ends as a 500, not a 422,
\* whose detail carries the cause, with prediction_count as before the request;
\* one whose call succeeds ends as a 200 with prediction_count one higher.
C4_FailedPredictionLeavesCount ==
    (LastIs("predict") /\ InRange(last.request))
    => IF Scored(last.request).raised
       THEN /\ Status = StatusInternal
            /\ Status # StatusUnprocessable
            /\ last.response.detail = "Prediction failed: " \o Scored(last.request).exc
            /\ prediction_count = last.before
       ELSE /\ Status = StatusOk
            /\ prediction_count = last.before + 1

\* A single prediction failed in the classifier after another had been counted.
C4_Witness ==
    /\ LastIs("predict")
    /\ Status = StatusInternal
    /\ last.before = 1

\* C5: prediction_count is never negative and never decreases; it changes only by
\* the store of a request whose current record was scored, and then by one; a step
\* that answers metrics, info, simulate-error or a rejected request leaves it alone.
C5_CountOnlyBySuccessfulScoring ==
    /\ [](prediction_count >= 0)
    /\ [][/\ prediction_count' >= prediction_count
          /\ prediction_count' # prediction_count
             => /\ prediction_count' = prediction_count + 1
                /\ \E t \in Tasks : /\ task[t].pc = "store"
                                    /\ task'[t] # task[t]
                                    /\ Len(task[t].results) = task[t].i
          /\ (last' # last /\ last'.endpoint \in {"metrics", "info", "simulate-error"})
             => prediction_count' = prediction_count
          /\ (last' # last /\ last'.endpoint \in {"predict", "predict-batch"}
                /\ last'.response.status = StatusUnprocessable)
             => prediction_count' = prediction_count]_vars

\* metrics answered with a count of 1 while a batch was between two records.
C5_Witness ==
    /\ LastIs("metrics")
    /\ last.response.body.total_predictions = 1
    /\ \E t \in Tasks : task[t].kind = "batch" /\ task[t].i = 2

\* the fraction p exceeds one half
OverHalf(p) == 2 * p[1] > p[2]

\* C6: in the results of both handlers delayed is TRUE exactly when
\* delay_probability exceeds 0.5, so FALSE at exactly 0.5, and delay_probability
\* is the second (positive-class) component of the classifier's row.
C6_DelayedIsStrictlyAboveHalf ==
    /\ (LastIs("predict") /\ Status = StatusOk)
       => /\ last.response.body.delayed = OverHalf(last.response.body.delay_probability)
          /\ last.response.body.delay_probability = model[Features(last.request)[1]].row[2]
    /\ (LastIs("predict-batch") /\ Status = StatusOk)
       => \A k \in 1..Len(last.response.body.predictions) :
             LET r == last.response.body.predictions[k]
             IN  /\ r.delayed = OverHalf(r.delay_probability)
                 /\ r.delay_probability = model[Features(last.request[k])[1]].row[2]

\* A batch returned a probability of exactly one half as not delayed, next to one
\* above one half as delayed.
C6_Witness ==
    /\ LastIs("predict-batch")
    /\ Status = StatusOk
    /\ Len(last.response.body.predictions) = 2
    /\ last.response.body.predictions[1] =
          [flight_id |-> "A", delay_probability |-> <<1, 2>>, delayed |-> FALSE]
    /\ last.response.body.predictions[2].delayed

\* C7: simulate-error with raise_error TRUE answers 418, a status that is neither
\* 422 nor 500, with the fixed message; with FALSE it answers 200 with status
\* "ok"; the answer is the same in every state, and the step changes neither
\* prediction_count nor start_time.
C7_SimulatedErrorIsFixed ==
    /\ [](LastIs("simulate-error")
          => IF last.request.raise_error
             THEN /\ last.response = [status |-> 418,
                                      detail |-> "Este es un error simulado para enseñar manejo"]
                  /\ Status \notin {StatusUnprocessable, StatusInternal}
             ELSE /\ Status = StatusOk
                  /\ last.response.body.status = "ok"
                  /\ DOMAIN last.response.body = {"status", "message"})
    /\ [][(last' # last /\ last'.endpoint = "simulate-error")
          => (prediction_count' = prediction_count /\ start_time' = start_time)]_vars

\* The simulated error was raised after a prediction had been counted.
C7_Witness ==
    /\ LastIs("simulate-error")
    /\ last.request.raise_error
    /\ prediction_count = 1

\* C8: a batch with an empty body is answered 200 with predictions = [] and
\* count = 0, and prediction_count stays as it was.
C8_EmptyBatch ==
    (LastIs("predict-batch") /\ Len(last.request) = 0)
    => /\ last.response = [status |-> StatusOk, body |-> [predictions |-> <<>>, count |-> 0]]
       /\ prediction_count = last.before

\* An empty batch was answered after a prediction had been counted.
C8_Witness ==
    /\ LastIs("predict-batch")
    /\ Len(last.request) = 0
    /\ Status = StatusOk
    /\ prediction_count = 1

AllScored(raws) == \A k \in 1..Len(raws) : InRange(raws[k]) /\ ~Scored(raws[k]).raised

\* what predict_delay returns for one record the classifier scores
SingleResult(raw) ==
    [flight_id |-> raw.flight_id,
     delay_probability |-> Scored(raw).value[1][2],
     delayed |-> OverHalf(Scored(raw).value[1][2])]

\* C9: a batch of n valid records, all scored, is answered 200 with count = n
\* predictions, the i-th being what the single handler returns for the i-th
\* record, and prediction_count is n higher than before the request.
C9_BatchOfValidRecords ==
    (LastIs("predict-batch") /\ AllScored(last.request))
    => /\ Status = StatusOk
       /\ last.response.body.count = Len(last.request)
       /\ Len(last.response.body.predictions) = Len(last.request)
       /\ \A k \in 1..Len(last.request) :
             last.response.body.predictions[k] = SingleResult(last.request[k])
       /\ prediction_count = last.before + Len(last.request)

\* A batch of two records with different ids and different results was answered.
C9_Witness ==
    /\ LastIs("predict-batch")
    /\ Status = StatusOk
    /\ last.response.body.count = 2
    /\ last.request[1].flight_id # last.request[2].flight_id
    /\ last.response.body.predictions[1].delayed # last.response.body.predictions[2].delayed

\* the position of the first record of a valid batch on which the classifier fails
FailsAt(raws, k) ==
    /\ k \in 1..Len(raws)
    /\ Scored(raws[k]).raised
    /\ \A j \in 1..(k - 1) : ~Scored(raws[j]).raised

FailedBatch == LastIs("predict-batch") /\ Status = StatusInternal

\* C10 as stated: a batch whose k-th classifier call fails is answered 500 without
\* predictions, prediction_count has risen by k - 1, and it then exceeds the
\* number of prediction results delivered.
C10_FailedBatchCountExceedsDelivered ==
    FailedBatch
    => \E k \in 1..Len(last.request) :
          /\ FailsAt(last.request, k)
          /\ "body" \notin DOMAIN last.response
          /\ prediction_count = last.before + k - 1
          /\ prediction_count > delivered

\* C10 amended: a batch whose k-th classifier call fails is answered 500 without
\* predictions, prediction_count has risen by k - 1, it is then at least the number
\* of prediction results delivered, and exceeds that number when k >= 2.
C10_FailedBatchKeepsPartialCount ==
    /\ (LastIs("predict-batch") /\ ListFlightData(last.request))
       => \A k \in 1..Len(last.request) :
             FailsAt(last.request, k)
             => /\ Status = StatusInternal
                /\ last.response.detail =
                      "Batch prediction failed: " \o Scored(last.request[k]).exc
                /\ "body" \notin DOMAIN last.response
                /\ last.calls = k
                /\ prediction_count = last.before + k - 1
                /\ prediction_count >= delivered
                /\ k >= 2 => prediction_count > delivered
    /\ Quiescent => prediction_count >= delivered

\* A batch failed on its second record: one prediction counted, none delivered.
C10_Witness ==
    /\ FailedBatch
    /\ last.calls = 2
    /\ prediction_count = 1
    /\ delivered = 0
====
